---- MODULE Spec2Model ----
(***************************************************************************)
(* Model of brancher/inference.py: the training loop perform_inference and *)
(* the five inference strategies it drives (ReverseKL, MaximumLikelihood,  *)
(* MAP, WassersteinVariationalGradientDescent,                             *)
(* SteinVariationalGradientDescent).                                       *)
(*                                                                         *)
(* One call of perform_inference is a sequential program; pc is its        *)
(* position. The joint / posterior / sampler models, the optimizer wrapper *)
(* and the tensors are collaborators outside inference.py: a model is      *)
(* represented by where it came from, an optimizer by the role it was      *)
(* built for, a parameter set by the number of updates applied to it.      *)
(* Real numbers (particle values, gradients, the SVGD bandwidth) are       *)
(* fixed-point integers with three decimal digits, or NaN.                 *)
(***************************************************************************)
EXTENDS Integers, Sequences, FiniteSets, TLC

VARIABLES
    args,               \* the arguments of the call and the objects behind them (never changes)
    pc,                 \* position in perform_inference
    error,              \* exception that ended the call, "none" while it runs
    inference_method,   \* local inference_method
    posterior_model,    \* local posterior_model
    sampler_model,      \* local sampler_model
    slot,               \* joint_model.posterior_model
    warnings,           \* warnings emitted so far, in order
    optimizers_list,    \* local optimizers_list: the roles whose optimizer was appended
    iteration,          \* loop variable
    loss,               \* value returned by the last compute_loss
    loss_list,          \* local loss_list
    diagnostics,        \* joint_model.diagnostics["loss curve"]
    params,             \* per role: number of optimizer updates applied to its parameters
    calls,              \* per operation: number of calls made
    stepLog,            \* per finite-loss iteration: the roles stepped, in order
    particles,          \* SVGD: value of every variable of every particle
    grads,              \* SVGD: variable.value.grad of every variable of every particle
    rawGrads,           \* SVGD: local gradients of correct_gradient (grads read before the overwrite)
    bandwidth,          \* SVGD: self.bandwidth
    weights             \* WVGD: whether self.weights has been set

vars == <<args, pc, error, inference_method, posterior_model, sampler_model, slot,
          warnings, optimizers_list, iteration, loss, loss_list, diagnostics, params,
          calls, stepLog, particles, grads, rawGrads, bandwidth, weights>>

(***************************************************************************)
(* Bounds                                                                  *)
(***************************************************************************)
MaxIter == 3        \* number_iterations ranges over 0..MaxIter
MaxPre == 1         \* pretraining_iterations ranges over 0..MaxPre
MaxParticles == 2   \* SVGD ensembles have 1..MaxParticles particles
MaxVal == 1         \* SVGD particle values and the data mean range over 0..MaxVal

(***************************************************************************)
(* Fixed-point reals                                                       *)
(***************************************************************************)
Scale == 10 * 10 * 10

NaN == [nan |-> TRUE, v |-> 0]
Num(n) == [nan |-> FALSE, v |-> n]
IsFinite(x) == ~x.nan

Abs(n) == IF n < 0 THEN -n ELSE n
Sign(n) == IF n < 0 THEN -1 ELSE IF n > 0 THEN 1 ELSE 0
\* division rounding toward zero, as IEEE results are symmetric in sign
Div(a, b) == Sign(a) * Sign(b) * (Abs(a) \div Abs(b))

(***************************************************************************)
(* Strategies                                                              *)
(***************************************************************************)
Roles == <<"posterior", "model", "sampler">>
RoleSet == {"posterior", "model", "sampler"}
Methods == {"ReverseKL", "WVGD", "ML", "MAP", "SVGD"}

learnable_posterior(m) == m \in {"ReverseKL", "WVGD", "MAP", "SVGD"}
learnable_model(m) == m \in {"ReverseKL", "ML", "MAP"}
learnable_sampler(m) == m = "WVGD"

Learnable(m, r) ==
    CASE r = "posterior" -> learnable_posterior(m)
      [] r = "model" -> learnable_model(m)
      [] r = "sampler" -> learnable_sampler(m)

(***************************************************************************)
(* SteinVariationalGradientDescent: numerics                               *)
(* A particle is a sequence of values (one per variable of                 *)
(* particle.flatten()), an ensemble a sequence of particles.               *)
(***************************************************************************)
NumVars == 2        \* variables per particle

RECURSIVE SumSeq(_)
SumSeq(s) == IF s = <<>> THEN 0 ELSE Head(s) + SumSeq(Tail(s))

\* sum of a sequence of reals: NaN as soon as one term is NaN
SumNum(s) ==
    IF \E k \in DOMAIN s : s[k].nan THEN NaN
    ELSE Num(SumSeq([k \in DOMAIN s |-> s[k].v]))

RECURSIVE SqrtBetween(_, _, _)
SqrtBetween(n, lo, hi) ==
    IF lo >= hi THEN lo
    ELSE LET mid == (lo + hi + 1) \div 2
         IN  IF mid * mid <= n THEN SqrtBetween(n, mid, hi)
             ELSE SqrtBetween(n, lo, mid - 1)

\* np.sqrt of a non-negative fixed-point number
Sqrt(x) == SqrtBetween(x * Scale, 0, 46340)

\* np.log(n) for a particle count n, in fixed point (log(0) is -inf)
LogTable == <<0, 693, 1099, 1386, 1609, 1792>>
Log(n) == LogTable[n]

\* e^(-x) for a non-negative fixed-point x (e^(-1) is 0.368)
RECURSIVE ExpNegInt(_)
ExpNegInt(q) == IF q = 0 THEN Scale ELSE (ExpNegInt(q - 1) * 368) \div Scale
ExpNegFrac(r) ==
    LET t2 == (r * r) \div (2 * Scale)
        t3 == (t2 * r) \div (3 * Scale)
        t4 == (t3 * r) \div (4 * Scale)
        t5 == (t4 * r) \div (5 * Scale)
        t6 == (t5 * r) \div (6 * Scale)
    IN  Scale - r + t2 - t3 + t4 - t5 + t6
ExpNeg(x) ==
    IF x >= 20 * Scale THEN 0
    ELSE (ExpNegInt(x \div Scale) * ExpNegFrac(x % Scale)) \div Scale

\* self.deviation (line 335): np.sum((x - y)**2)
deviation(x, y) == ((x.v - y.v) * (x.v - y.v)) \div Scale

\* sum([self.deviation(v1, v2) for v1, v2 in zip(p1.flatten(), p2.flatten())])
ParticleDeviation(p1, p2) ==
    SumSeq([k \in 1..(IF Len(p1) < Len(p2) THEN Len(p1) ELSE Len(p2)) |->
                deviation(p1[k], p2[k])])

\* self.kernel (line 336): np.exp(-d/(2*bw)); -d/0 is -inf for d > 0 and NaN for d = 0
kernel(d, bw) ==
    IF bw.nan THEN NaN
    ELSE IF bw.v = 0 THEN (IF d = 0 THEN NaN ELSE Num(0))
    ELSE Num(ExpNeg(Div(d * Scale, 2 * bw.v)))

\* the k-th smallest (k from 1) of a non-empty sequence of integers
KthSmallest(s, k) ==
    CHOOSE x \in {s[i] : i \in DOMAIN s} :
        /\ Cardinality({i \in DOMAIN s : s[i] < x}) < k
        /\ Cardinality({i \in DOMAIN s : s[i] <= x}) >= k

\* np.median: NaN of an empty list, the middle element, or the mean of the two middle ones
Median(s) ==
    IF s = <<>> THEN NaN
    ELSE IF Len(s) % 2 = 1 THEN Num(KthSmallest(s, (Len(s) + 1) \div 2))
    ELSE Num((KthSmallest(s, Len(s) \div 2) + KthSmallest(s, Len(s) \div 2 + 1)) \div 2)

\* the ordered pairs of distinct particles (particle1 is not particle2), in loop order
RECURSIVE PairsFrom(_, _, _)
PairsFrom(n, i, j) ==
    IF i > n THEN <<>>
    ELSE IF j > n THEN PairsFrom(n, i + 1, 1)
    ELSE IF i = j THEN PairsFrom(n, i, j + 1)
    ELSE <<(<<i, j>>)>> \o PairsFrom(n, i, j + 1)

\* update_bandwidth (lines 369-376): the new self.bandwidth
update_bandwidth(ps) ==
    LET pairs == PairsFrom(Len(ps), 1, 1)
        distances == [k \in DOMAIN pairs |->
                        Sqrt(ParticleDeviation(ps[pairs[k][1]], ps[pairs[k][2]]))]
        med == Median(distances)
    IN  IF Len(ps) = 0 \/ med.nan THEN NaN
        ELSE IF Log(Len(ps)) = 0
             THEN NaN      \* only a lone particle has log 0, and then the median is NaN
        ELSE Num(Div(2 * med.v * med.v, Log(Len(ps))))

\* kernel_matrix (lines 356-359): outer index particle2, inner index particle1
kernel_matrix(ps, bw) ==
    [i2 \in DOMAIN ps |-> [i1 \in DOMAIN ps |->
        kernel(ParticleDeviation(ps[i1], ps[i2]), bw)]]

\* a real times a real divided by the bandwidth: x/0 is NaN for x = 0 or NaN
OverBandwidth(x, bw) ==
    IF x.nan \/ bw.nan THEN NaN
    ELSE IF bw.v = 0 THEN NaN
    ELSE Num(Div(x.v * Scale, bw.v))

Times(x, y) == IF x.nan \/ y.nan THEN NaN ELSE Num(Div(x.v * y.v, Scale))
Minus(x, y) == IF x.nan \/ y.nan THEN NaN ELSE Num(x.v - y.v)
Neg(x) == IF x.nan THEN NaN ELSE Num(-x.v)

\* interaction_matrix (lines 360-363): outer index particle2, inner index particle1
interaction_matrix(ps, bw) ==
    LET K == kernel_matrix(ps, bw)
    IN  [i2 \in DOMAIN ps |-> [i1 \in DOMAIN ps |-> [k \in 1..NumVars |->
            OverBandwidth(Times(Neg(Minus(ps[i1][k], ps[i2][k])), K[i1][i2]), bw)]]]

\* the gradients correct_gradient writes (lines 364-367)
corrected_gradients(ps, gradients, bw) ==
    LET K == kernel_matrix(ps, bw)
        I == interaction_matrix(ps, bw)
    IN  [i \in DOMAIN ps |-> [k \in 1..NumVars |->
            SumNum([j \in DOMAIN gradients |->
                LET a == Times(K[i][j], gradients[j][k])
                    b == I[i][j][k]
                IN  IF a.nan \/ b.nan THEN NaN ELSE Num(a.v + b.v)])]]

(***************************************************************************)
(* Collaborators of inference.py, as far as the loop reads them            *)
(***************************************************************************)
\* the loss each strategy's compute_loss returns
LossKind(m) ==
    CASE m = "ReverseKL" -> "negative ELBO"
      [] m = "WVGD" -> "sampler ELBO plus particle loss"
      [] m = "ML" -> "negative log-probability of the data"
      [] m = "MAP" -> "negative log-probability at the point estimate"
      [] m = "SVGD" -> "sum of negative log-probabilities of the particles"

\* ProbabilisticOptimizer(model, ...).optimizer is set iff the model has learnable parameters
HasOptimizer(r) == args.has_params[r]

\* loss.backward() on the SVGD loss of a unit-variance Gaussian joint model centred at
\* args.data_mean: d(-log p)/d(value) = value - mean, accumulated onto the old .grad
BackwardGradients(ps, old, zeroed) ==
    [i \in DOMAIN ps |-> [k \in 1..NumVars |->
        LET g == Minus(ps[i][k], Num(args.data_mean * Scale))
        IN  IF zeroed THEN g
            ELSE IF g.nan \/ old[i][k].nan THEN NaN ELSE Num(g.v + old[i][k].v)]]

\* opt.update() on the particle ensemble: a unit step against the sign of the gradient
OptimizerStep(ps, g) ==
    [i \in DOMAIN ps |-> [k \in 1..NumVars |->
        IF g[i][k].nan \/ ps[i][k].nan THEN NaN
        ELSE Num(ps[i][k].v - Sign(g[i][k].v) * Scale)]]

ZeroGradients(ps) == [i \in DOMAIN ps |-> [k \in 1..NumVars |-> Num(0)]]

(***************************************************************************)
(* The call                                                                *)
(***************************************************************************)
Ensemble(values) == [i \in DOMAIN values |-> [k \in 1..NumVars |-> Num(values[i][k] * Scale)]]

\* every ensemble of 1..MaxParticles particles with values in 0..MaxVal
AllEnsembles ==
    UNION {[1..n -> [1..NumVars -> 0..MaxVal]] : n \in 1..MaxParticles}

\* the one ensemble the runs of Spec use with SVGD: particles at (0,..,0) and (1,..,1)
TwoParticles == {[i \in 1..2 |-> [k \in 1..NumVars |-> i - 1]]}

JointModels ==
    [kind : {"Model"}, process_posterior : {FALSE}, attached : BOOLEAN]
    \cup [kind : {"Variable"}, process_posterior : {FALSE}, attached : {FALSE}]
    \cup [kind : {"Process"}, process_posterior : BOOLEAN, attached : BOOLEAN]

\* the arguments of perform_inference and the properties of the objects passed
Calls(methods, ensembles, means) ==
    {a \in [joint_model : JointModels,
            inference_method : methods,
            posterior_model : {"None", "Arg"},
            sampler_model : {"None", "List", "NotAList"},
            number_iterations : 0..MaxIter,
            pretraining_iterations : 0..MaxPre,
            has_params : [RoleSet -> BOOLEAN],
            posterior_deterministic : BOOLEAN,
            ensemble : ensembles \cup {<<>>},
            data_mean : means] :
        /\ (a.ensemble # <<>>) <=> (a.inference_method = "SVGD")
        /\ a.inference_method # "MAP" => a.posterior_deterministic
        /\ a.inference_method # "WVGD" => a.sampler_model # "NotAList"}

InitCall(a) ==
    /\ args = a
    /\ pc = "normalize"
    /\ error = "none"
    /\ inference_method = a.inference_method
    /\ posterior_model = a.posterior_model
    /\ sampler_model = a.sampler_model
    /\ slot = IF a.joint_model.attached THEN "Attached" ELSE "None"
    /\ warnings = <<>>
    /\ optimizers_list = <<>>
    /\ iteration = 0
    /\ loss = [kind |-> "none", finite |-> TRUE]
    /\ loss_list = <<>>
    /\ diagnostics = [written |-> FALSE, curve |-> <<>>]
    /\ params = [r \in RoleSet |-> 0]
    /\ calls = [compute_loss |-> 0, zero_grad |-> 0, backward |-> 0,
                correct_gradient |-> 0, update |-> 0, post_process |-> 0]
    /\ stepLog = <<>>
    /\ particles = Ensemble(a.ensemble)
    /\ grads = ZeroGradients(a.ensemble)
    /\ rawGrads = ZeroGradients(a.ensemble)
    /\ bandwidth = Num(Scale \div 100)
    /\ weights = FALSE

Init == \E a \in Calls(Methods \cup {"None"}, TwoParticles, {1}) : InitCall(a)

InitSVGD ==
    \E a \in Calls({"SVGD"}, AllEnsembles, 0..MaxVal) :
        /\ a.joint_model = [kind |-> "Model", process_posterior |-> FALSE, attached |-> FALSE]
        /\ a.posterior_model = "Arg"
        /\ a.sampler_model = "None"
        /\ a.has_params["posterior"]
        /\ a.pretraining_iterations = 0
        /\ a.number_iterations > 0
        /\ InitCall(a)

Raise(e) == pc' = "raised" /\ error' = e

\* lines 43-50: a stochastic process is replaced by its active submodel, onto which its
\* posterior is set; a single variable is wrapped in a new model
Normalize ==
    /\ pc = "normalize"
    /\ slot' = CASE args.joint_model.kind = "Process" /\ args.joint_model.process_posterior
                      -> "ProcessPosterior"
                 [] args.joint_model.kind = "Variable" -> "None"
                 [] OTHER -> slot
    /\ pc' = "select_method"
    /\ UNCHANGED <<args, error, inference_method, posterior_model, sampler_model, warnings,
                   optimizers_list, iteration, loss, loss_list, diagnostics, params, calls,
                   stepLog, particles, grads, rawGrads, bandwidth, weights>>

\* SelectMethod without the warning
SelectMethodSilently ==
    /\ pc = "select_method"
    /\ inference_method' = IF inference_method = "None" THEN "ReverseKL" ELSE inference_method
    /\ pc' = "resolve_posterior"
    /\ UNCHANGED <<args, error, posterior_model, sampler_model, slot, warnings,
                   optimizers_list, iteration, loss, loss_list, diagnostics, params, calls,
                   stepLog, particles, grads, rawGrads, bandwidth, weights>>

\* lines 51-53
SelectMethod ==
    /\ pc = "select_method"
    /\ IF inference_method = "None"
       THEN /\ warnings' = Append(warnings, "default method")
            /\ inference_method' = "ReverseKL"
       ELSE UNCHANGED <<warnings, inference_method>>
    /\ pc' = "resolve_posterior"
    /\ UNCHANGED <<args, error, posterior_model, sampler_model, slot,
                   optimizers_list, iteration, loss, loss_list, diagnostics, params, calls,
                   stepLog, particles, grads, rawGrads, bandwidth, weights>>

\* construct_posterior_model of each strategy: the model it returns, or "raise"
construct_posterior_model(m) ==
    CASE m = "MAP" -> "MAPConstructed"
      [] m = "ML" -> "None"
      [] OTHER -> "raise"

\* lines 54-57
ResolvePosterior ==
    /\ pc = "resolve_posterior"
    /\ LET attached == IF posterior_model = "None" /\ slot # "None" THEN slot
                       ELSE posterior_model
       IN  IF attached # "None"
           THEN posterior_model' = attached /\ pc' = "resolve_sampler" /\ UNCHANGED error
           ELSE IF construct_posterior_model(inference_method) = "raise"
                THEN Raise("ValueError") /\ UNCHANGED posterior_model
                ELSE /\ posterior_model' = construct_posterior_model(inference_method)
                     /\ pc' = "resolve_sampler"
                     /\ UNCHANGED error
    /\ UNCHANGED <<args, inference_method, sampler_model, slot, warnings,
                   optimizers_list, iteration, loss, loss_list, diagnostics, params, calls,
                   stepLog, particles, grads, rawGrads, bandwidth, weights>>

\* lines 58-66: the strategy's sampler, else the joint model's posterior_sampler, else None
ResolveSampler ==
    /\ pc = "resolve_sampler"
    /\ \E joint_sampler \in {"None", "JointSampler"} :
          sampler_model' =
              IF sampler_model # "None" THEN sampler_model
              ELSE IF inference_method = "WVGD" THEN "Truncated"
              ELSE joint_sampler
    /\ pc' = "build"
    /\ UNCHANGED <<args, error, inference_method, posterior_model, slot, warnings,
                   optimizers_list, iteration, loss, loss_list, diagnostics, params, calls,
                   stepLog, particles, grads, rawGrads, bandwidth, weights>>

\* lines 70-73
append_prob_optimizer(list, r) == IF HasOptimizer(r) THEN Append(list, r) ELSE list

\* BuiltOptimizers with the joint model's optimizer appended before the posterior's
BuiltOptimizersModelFirst(m) ==
    LET l0 == <<>>
        l1 == IF learnable_model(m) THEN append_prob_optimizer(l0, "model") ELSE l0
        l2 == IF learnable_posterior(m) THEN append_prob_optimizer(l1, "posterior") ELSE l1
        l3 == IF learnable_sampler(m) THEN append_prob_optimizer(l2, "sampler") ELSE l2
    IN  l3

\* lines 75-81
BuiltOptimizers(m) ==
    LET l0 == <<>>
        l1 == IF learnable_posterior(m) THEN append_prob_optimizer(l0, "posterior") ELSE l0
        l2 == IF learnable_model(m) THEN append_prob_optimizer(l1, "model") ELSE l1
        l3 == IF learnable_sampler(m) THEN append_prob_optimizer(l2, "sampler") ELSE l2
    IN  l3

\* lines 68-81
BuildOptimizers ==
    /\ pc = "build"
    /\ optimizers_list' = BuiltOptimizers(inference_method)
    /\ pc' = "check"
    /\ UNCHANGED <<args, error, inference_method, posterior_model, sampler_model, slot,
                   warnings, iteration, loss, loss_list, diagnostics, params, calls,
                   stepLog, particles, grads, rawGrads, bandwidth, weights>>

\* check_model_compatibility of each strategy: whether its assertion passes
Compatible(m) ==
    CASE m = "WVGD" -> sampler_model \in {"List", "Truncated"}
      [] m = "MAP" -> posterior_model = "MAPConstructed" \/ args.posterior_deterministic
      [] OTHER -> TRUE

\* CheckModelCompatibility placed after the first compute_loss
CheckModelCompatibilityLate ==
    /\ pc = "check"
    /\ loss_list' = <<>>
    /\ IF Compatible(inference_method)
       THEN pc' = "loop" /\ UNCHANGED <<error, calls>>
       ELSE Raise("AssertionError") /\ calls' = [calls EXCEPT !.compute_loss = @ + 1]
    /\ UNCHANGED <<args, inference_method, posterior_model, sampler_model, slot,
                   warnings, optimizers_list, iteration, loss, diagnostics, params,
                   stepLog, particles, grads, rawGrads, bandwidth, weights>>

\* lines 83-85
CheckModelCompatibility ==
    /\ pc = "check"
    /\ loss_list' = <<>>
    /\ IF Compatible(inference_method)
       THEN pc' = "loop" /\ UNCHANGED error
       ELSE Raise("AssertionError")
    /\ UNCHANGED <<args, inference_method, posterior_model, sampler_model, slot,
                   warnings, optimizers_list, iteration, loss, diagnostics, params, calls,
                   stepLog, particles, grads, rawGrads, bandwidth, weights>>

\* lines 87-88: the loop goes on while iteration < number_iterations
ComputeLoss ==
    /\ pc = "loop"
    /\ iteration < args.number_iterations
    /\ \E finite \in BOOLEAN :
          \* the loss of a NaN particle is NaN
          /\ (\E i \in DOMAIN particles : \E k \in 1..NumVars : particles[i][k].nan) => ~finite
          /\ loss' = [kind |-> LossKind(inference_method), finite |-> finite]
    /\ calls' = [calls EXCEPT !.compute_loss = @ + 1]
    /\ pc' = "branch"
    /\ UNCHANGED <<args, error, inference_method, posterior_model, sampler_model, slot,
                   warnings, optimizers_list, iteration, loss_list, diagnostics, params,
                   stepLog, particles, grads, rawGrads, bandwidth, weights>>

\* lines 90-92: every optimizer's zero_grad, then loss.backward()
Backward ==
    /\ pc = "branch"
    /\ loss.finite
    /\ calls' = [calls EXCEPT !.zero_grad = @ + Len(optimizers_list), !.backward = @ + 1]
    /\ grads' = BackwardGradients(particles, grads,
                                  \E n \in DOMAIN optimizers_list : optimizers_list[n] = "posterior")
    /\ pc' = "correct"
    /\ UNCHANGED <<args, error, inference_method, posterior_model, sampler_model, slot,
                   warnings, optimizers_list, iteration, loss, loss_list, diagnostics, params,
                   stepLog, particles, rawGrads, bandwidth, weights>>

\* line 93: correct_gradient is a no-op except for SVGD (lines 353-367)
CorrectGradient ==
    /\ pc = "correct"
    /\ calls' = [calls EXCEPT !.correct_gradient = @ + 1]
    /\ IF inference_method = "SVGD"
       THEN /\ bandwidth' = update_bandwidth(particles)
            /\ rawGrads' = grads
            /\ grads' = corrected_gradients(particles, grads, bandwidth')
       ELSE UNCHANGED <<bandwidth, rawGrads, grads>>
    /\ pc' = "update"
    /\ UNCHANGED <<args, error, inference_method, posterior_model, sampler_model, slot,
                   warnings, optimizers_list, iteration, loss, loss_list, diagnostics, params,
                   stepLog, particles, weights>>

\* SteppedOptimizers without the pretraining test
SteppedOptimizersAll(list, it, pretraining) == list

\* lines 94-96: the optimizers stepped in this iteration, in order
SteppedOptimizers(list, it, pretraining) ==
    <<Head(list)>> \o (IF it > pretraining THEN Tail(list) ELSE <<>>)

\* lines 94-97: optimizers_list[0] of an empty list raises IndexError
UpdateOptimizers ==
    /\ pc = "update"
    /\ IF optimizers_list = <<>>
       THEN /\ Raise("IndexError")
            /\ UNCHANGED <<params, calls, stepLog, particles, loss_list>>
       ELSE LET stepped == SteppedOptimizers(optimizers_list, iteration,
                                             args.pretraining_iterations)
                isStepped(r) == \E n \in DOMAIN stepped : stepped[n] = r
            IN  /\ params' = [r \in RoleSet |-> IF isStepped(r) THEN params[r] + 1
                                                ELSE params[r]]
                /\ calls' = [calls EXCEPT !.update = @ + Len(stepped)]
                /\ stepLog' = Append(stepLog, [iteration |-> iteration, stepped |-> stepped])
                /\ particles' = IF isStepped("posterior") THEN OptimizerStep(particles, grads)
                                ELSE particles
                /\ loss_list' = Append(loss_list, [iteration |-> iteration,
                                                   finite |-> loss.finite,
                                                   shape |-> "flattened"])
                /\ pc' = "append"
                /\ UNCHANGED error
    /\ UNCHANGED <<args, inference_method, posterior_model, sampler_model, slot,
                   warnings, optimizers_list, iteration, loss, diagnostics,
                   grads, rawGrads, bandwidth, weights>>

\* SkipSample that still steps the first optimizer
SkipSampleStepping ==
    /\ pc = "branch"
    /\ ~loss.finite
    /\ warnings' = Append(warnings, "numerical error")
    /\ params' = [r \in RoleSet |->
                    IF optimizers_list # <<>> /\ r = Head(optimizers_list)
                    THEN params[r] + 1 ELSE params[r]]
    /\ pc' = "append"
    /\ UNCHANGED <<args, error, inference_method, posterior_model, sampler_model, slot,
                   optimizers_list, iteration, loss, loss_list, diagnostics, calls,
                   stepLog, particles, grads, rawGrads, bandwidth, weights>>

\* lines 98-99
SkipSample ==
    /\ pc = "branch"
    /\ ~loss.finite
    /\ warnings' = Append(warnings, "numerical error")
    /\ pc' = "append"
    /\ UNCHANGED <<args, error, inference_method, posterior_model, sampler_model, slot,
                   optimizers_list, iteration, loss, loss_list, diagnostics, params, calls,
                   stepLog, particles, grads, rawGrads, bandwidth, weights>>

\* line 100, and the step of the loop variable
AppendLoss ==
    /\ pc = "append"
    /\ loss_list' = Append(loss_list, [iteration |-> iteration, finite |-> loss.finite,
                                       shape |-> "scalar"])
    /\ iteration' = iteration + 1
    /\ pc' = "loop"
    /\ UNCHANGED <<args, error, inference_method, posterior_model, sampler_model, slot,
                   warnings, optimizers_list, loss, diagnostics, params, calls,
                   stepLog, particles, grads, rawGrads, bandwidth, weights>>

\* line 101, once the loop is over
RecordLossCurve ==
    /\ pc = "loop"
    /\ iteration >= args.number_iterations
    /\ diagnostics' = [written |-> TRUE, curve |-> loss_list]
    /\ pc' = "post_process"
    /\ UNCHANGED <<args, error, inference_method, posterior_model, sampler_model, slot,
                   warnings, optimizers_list, iteration, loss, loss_list, params, calls,
                   stepLog, particles, grads, rawGrads, bandwidth, weights>>

\* line 103: post_process is a no-op except for WVGD, which sets self.weights (245-259)
PostProcess ==
    /\ pc = "post_process"
    /\ calls' = [calls EXCEPT !.post_process = @ + 1]
    /\ weights' = (weights \/ inference_method = "WVGD")
    /\ pc' = "install"
    /\ UNCHANGED <<args, error, inference_method, posterior_model, sampler_model, slot,
                   warnings, optimizers_list, iteration, loss, loss_list, diagnostics, params,
                   stepLog, particles, grads, rawGrads, bandwidth>>

\* set_posterior_model_after_inference of each strategy: the posterior it installs, or
\* "AttributeError" where neither the strategy nor InferenceMethod defines the method
set_posterior_model_after_inference(m) ==
    CASE m = "ReverseKL" -> posterior_model
      [] m = "WVGD" -> "Ensemble"
      [] OTHER -> "AttributeError"

\* lines 105-106
InstallPosterior ==
    /\ pc = "install"
    /\ IF slot = "None" /\ learnable_posterior(inference_method)
       THEN IF set_posterior_model_after_inference(inference_method) = "AttributeError"
            THEN Raise("AttributeError") /\ UNCHANGED slot
            ELSE /\ slot' = set_posterior_model_after_inference(inference_method)
                 /\ pc' = "done"
                 /\ UNCHANGED error
       ELSE pc' = "done" /\ UNCHANGED <<slot, error>>
    /\ UNCHANGED <<args, inference_method, posterior_model, sampler_model,
                   warnings, optimizers_list, iteration, loss, loss_list, diagnostics, params,
                   calls, stepLog, particles, grads, rawGrads, bandwidth, weights>>

Next ==
    \/ Normalize
    \/ SelectMethod
    \/ ResolvePosterior
    \/ ResolveSampler
    \/ BuildOptimizers
    \/ CheckModelCompatibility
    \/ ComputeLoss
    \/ Backward
    \/ CorrectGradient
    \/ UpdateOptimizers
    \/ SkipSample
    \/ AppendLoss
    \/ RecordLossCurve
    \/ PostProcess
    \/ InstallPosterior

Spec == Init /\ [][Next]_vars

SpecSVGD == InitSVGD /\ [][Next]_vars

(***************************************************************************)
(* Properties                                                              *)
(***************************************************************************)
Terminal == pc \in {"done", "raised"}

\* optimizers_list has been built
Built ==
    /\ pc \notin {"normalize", "select_method", "resolve_posterior", "resolve_sampler", "build"}
    /\ error # "ValueError"

\* the joint model the loop works on has no posterior attached when the call starts
\* resolving its arguments
NoAttachedPosterior ==
    /\ ~args.joint_model.attached
    /\ ~(args.joint_model.kind = "Process" /\ args.joint_model.process_posterior)

\* joint_model.posterior_model as the caller left it
InitialSlot == IF args.joint_model.attached THEN "Attached" ELSE "None"

NoTrainingCalls ==
    /\ calls.compute_loss = 0 /\ calls.zero_grad = 0 /\ calls.backward = 0
    /\ calls.correct_gradient = 0 /\ calls.update = 0 /\ calls.post_process = 0

\* C1: in an iteration whose loss is not finite no zero_grad, backward, correct_gradient
\* or optimizer update happens, nothing is raised and the loop goes on; so over any run
\* of consecutive non-finite iterations (loop head, skip, append) the parameters keep
\* their values.
C1_SkipLeavesParameters ==
    [][(pc = "loop" \/ (pc \in {"branch", "append"} /\ ~loss.finite)) =>
          /\ params' = params
          /\ particles' = particles
          /\ calls'.zero_grad = calls.zero_grad
          /\ calls'.backward = calls.backward
          /\ calls'.correct_gradient = calls.correct_gradient
          /\ calls'.update = calls.update
          /\ error' = "none"
          /\ pc' \in {"branch", "append", "loop", "post_process"}]_vars

\* one stepped iteration followed by two skipped ones: the parameters still have the
\* value the one step gave them
C1_Witness ==
    /\ pc = "loop" /\ iteration = 3
    /\ Len(stepLog) = 1 /\ stepLog[1].iteration = 0
    /\ Len(warnings) >= 2
    /\ params["posterior"] = 1

\* C2 (as claimed): whatever is stepped unconditionally is the posterior's optimizer;
\* the joint model's and the sampler's optimizers are stepped only when
\* iteration > pretraining_iterations.
C2_PosteriorUnconditional ==
    \A n \in DOMAIN stepLog :
        /\ stepLog[n].stepped[1] = "posterior"
        /\ \A k \in DOMAIN stepLog[n].stepped :
              stepLog[n].stepped[k] \in {"model", "sampler"} =>
                  stepLog[n].iteration > args.pretraining_iterations

\* C2 (amended): every finite-loss iteration that steps anything steps the first
\* optimizer of optimizers_list unconditionally, whichever role it belongs to, and the
\* remaining ones exactly when iteration > pretraining_iterations.
C2_FirstConstructedUnconditional ==
    /\ \A n \in DOMAIN stepLog :
          /\ optimizers_list # <<>>
          /\ stepLog[n].stepped[1] = optimizers_list[1]
          /\ stepLog[n].stepped =
                IF stepLog[n].iteration > args.pretraining_iterations
                THEN optimizers_list ELSE <<optimizers_list[1]>>
    /\ (pc = "append" /\ loss.finite) =>
          (stepLog # <<>> /\ stepLog[Len(stepLog)].iteration = iteration)

\* MaximumLikelihood steps the joint model's optimizer in the pretraining phase
C2_Witness ==
    /\ inference_method = "ML"
    /\ stepLog # <<>>
    /\ stepLog[1].stepped = <<"model">>
    /\ stepLog[1].iteration <= args.pretraining_iterations

\* C3: a strategy with learnable_posterior, run to the end of its iterations on a joint
\* model without a posterior, returns without error and leaves a posterior installed.
C3_LearnablePosteriorInstalled ==
    (Terminal /\ calls.post_process = 1 /\ learnable_posterior(inference_method)
        /\ NoAttachedPosterior)
    => (error = "none" /\ slot # "None")

\* C4: the recorded loss curve has exactly one entry per iteration whose step was taken,
\* in iteration order, and none for a skipped iteration.
C4_OneEntryPerStep ==
    diagnostics.written =>
        [n \in DOMAIN diagnostics.curve |-> diagnostics.curve[n].iteration]
            = [n \in DOMAIN stepLog |-> stepLog[n].iteration]

\* C5: optimizers_list holds, in the order posterior, joint model, sampler, exactly the
\* roles whose learnable flag is set and whose model has learnable parameters.
C5_OptimizersMatchRoles ==
    LET wanted(r) == Learnable(inference_method, r) /\ args.has_params[r]
    IN  /\ Built => optimizers_list = SelectSeq(Roles, wanted)
        /\ ~Built => optimizers_list = <<>>

\* ReverseKL on a posterior without parameters: only the joint model's optimizer, and
\* none for the sampler although the sampler has parameters
C5_Witness ==
    /\ Built
    /\ inference_method = "ReverseKL"
    /\ ~args.has_params["posterior"] /\ args.has_params["sampler"]
    /\ optimizers_list = <<"model">>

\* C6 (as claimed): a failed compatibility check ends the call before any training
\* call, before the loss curve is written, and with joint_model.posterior_model as the
\* caller left it.
C6_FailFastSlotUntouched ==
    error = "AssertionError" =>
        /\ NoTrainingCalls
        /\ ~diagnostics.written
        /\ slot = InitialSlot

\* C6 (amended): as claimed, except that the slot may already hold the posterior that
\* input normalisation set on a stochastic process's active submodel (line 47).
C6_FailFast ==
    error = "AssertionError" =>
        /\ pc = "raised"
        /\ NoTrainingCalls
        /\ params = [r \in RoleSet |-> 0]
        /\ ~diagnostics.written
        /\ slot = IF args.joint_model.kind = "Process" /\ args.joint_model.process_posterior
                  THEN "ProcessPosterior" ELSE InitialSlot

\* MAP's check fails on a stochastic process whose posterior was propagated
C6_Witness ==
    /\ error = "AssertionError"
    /\ inference_method = "MAP"
    /\ slot = "ProcessPosterior"
    /\ InitialSlot = "None"

\* the call names no inference method, posterior or sampler
DefaultCall ==
    /\ args.inference_method = "None"
    /\ args.posterior_model = "None"
    /\ args.sampler_model = "None"

\* C7 (as claimed): a call without inference method, posterior and sampler warns, selects
\* ReverseKL and runs the requested iterations with the reverse-KL loss.
C7_DefaultProceeds ==
    (DefaultCall /\ Terminal) =>
        /\ warnings # <<>> /\ warnings[1] = "default method"
        /\ inference_method = "ReverseKL"
        /\ error # "ValueError"
        /\ calls.compute_loss = args.number_iterations

\* C7 (amended): such a call warns and selects ReverseKL, and the warning does not end
\* it. With a posterior attached to the joint model that posterior is used and every loss
\* computed is the reverse-KL loss; without one, ReverseKL.construct_posterior_model
\* raises ValueError before any iteration.
C7_DefaultSelected ==
    (DefaultCall /\ pc \notin {"normalize", "select_method"}) =>
        /\ warnings # <<>> /\ warnings[1] = "default method"
        /\ inference_method = "ReverseKL"
        /\ loss.kind \in {"none", "negative ELBO"}
        /\ pc # "resolve_posterior" =>
              IF NoAttachedPosterior
              THEN pc = "raised" /\ error = "ValueError" /\ NoTrainingCalls
              ELSE error # "ValueError" /\ posterior_model = slot

\* a default call on a joint model with an attached posterior runs to the end
C7_Witness ==
    /\ DefaultCall
    /\ pc = "done"
    /\ calls.compute_loss = args.number_iterations
    /\ args.number_iterations >= 2
    /\ loss.kind = "negative ELBO"

\* C8: once update_bandwidth has run, the bandwidth is finite and strictly positive.
C8_BandwidthPositive ==
    calls.correct_gradient > 0 => (IsFinite(bandwidth) /\ bandwidth.v > 0)

\* k(i,j) of the claim
ClaimKernel(i, j) == kernel(ParticleDeviation(particles[i], particles[j]), bandwidth)

\* the interaction term of the claim: -(value_i - value_j) * k(i,j) / bandwidth
ClaimInteraction(i, j, k) ==
    OverBandwidth(Times(Neg(Minus(particles[i][k], particles[j][k])), ClaimKernel(i, j)),
                  bandwidth)

\* C9: after correct_gradient every gradient is the sum over the particles j of k(i,j)
\* times j's raw gradient plus -(value_i - value_j) * k(i,j) / bandwidth, so that the
\* interaction pushes i away from a particle j it differs from.
C9_SteinGradient ==
    (pc = "update" /\ inference_method = "SVGD") =>
        /\ \A i \in DOMAIN particles : \A k \in 1..NumVars :
              grads[i][k] = SumNum([j \in DOMAIN particles |->
                  LET a == Times(ClaimKernel(i, j), rawGrads[j][k])
                      b == ClaimInteraction(i, j, k)
                  IN  IF a.nan \/ b.nan THEN NaN ELSE Num(a.v + b.v)])
        /\ \A i \in DOMAIN particles : \A k \in 1..NumVars :
              LET pull == SumNum([j \in DOMAIN particles |->
                              Times(ClaimKernel(i, j), rawGrads[j][k])])
                  push == Minus(grads[i][k], pull)
              IN  \* every other particle lies above i in variable k: descent moves i down
                  (/\ IsFinite(push)
                   /\ \A j \in DOMAIN particles : particles[j][k].v >= particles[i][k].v
                   /\ \E j \in DOMAIN particles : particles[j][k].v > particles[i][k].v)
                  => push.v > 0

\* C10: with an empty optimizers_list the call still runs all its iterations and records
\* its loss history.
C10_NoOptimizerCompletes ==
    (Terminal /\ Built /\ error # "AssertionError" /\ optimizers_list = <<>>) =>
        /\ error # "IndexError"
        /\ calls.compute_loss = args.number_iterations
        /\ diagnostics.written


\* C11: with pretraining_iterations = p the optimizers after the first are held fixed in
\* exactly the first p iterations (loop indices 0..p-1) and stepped in every later
\* finite-loss iteration; with p = 0 every constructed optimizer is stepped in every
\* finite-loss iteration, the first included.
C11_PretrainingLastsP ==
    \A n \in DOMAIN stepLog :
        stepLog[n].stepped =
            IF stepLog[n].iteration >= args.pretraining_iterations
            THEN optimizers_list ELSE <<optimizers_list[1]>>

====
